---- MODULE Spec2Model ----
(***************************************************************************)
(* Model of the pages-tree webpack plugin: three variants of               *)
(* PagesTreeWebpackPlugin that read Next.js route manifests after a server *)
(* build, derive the route collection and write it out as artifacts.       *)
(*                                                                         *)
(*   "done"      src/src/index.ts lines 43-183  (hooks.done, gated,        *)
(*               filters /api/ and /pages-tree, writes routes + endpoint)  *)
(*   "afterEmit" src/src/index.ts lines 227-353 (hooks.afterEmit, three    *)
(*               manifests, ungated)                                       *)
(*   "html"      src/unnamed/part_000 lines 37-254 (hooks.done, gated,     *)
(*               cleanRoutePath + sort, writes index.html + routes.json)   *)
(*                                                                         *)
(* A JavaScript string is a sequence of one-character strings, so that     *)
(* startsWith, the regular expression of cleanRoutePath and the code-unit  *)
(* order of Array.prototype.sort are computed character by character.      *)
(***************************************************************************)
EXTENDS Naturals, Sequences, FiniteSets

\* ------------------------------------------------------------------ bounds
\* Most route keys the project contributes to a manifest.
MaxKeys == 2
\* Most builds of the project in one behaviour.
MaxBuilds == 2

\* ------------------------------------------------------- string literals
sApiPrefix == <<"/", "a", "p", "i", "/">>
sPagesTreePrefix == <<"/", "p", "a", "g", "e", "s", "-", "t", "r", "e", "e">>
sRootPage == <<"/", "p", "a", "g", "e">>
sPageMarker == <<"/", "p", "a", "g", "e">>
sRouteMarker == <<"/", "r", "o", "u", "t", "e">>
sRoot == <<"/">>

\* Route keys a project can put into a manifest: the root page (app/page),
\* a root route handler (app/route), a page and a route handler of one path,
\* the page of a directory that is itself named "page", and an API handler.
sAbout == <<"/", "a", "b", "o", "u", "t">>
KeyUniverse ==
    { sRootPage,
      sRouteMarker,
      sAbout \o sPageMarker,
      sAbout \o sRouteMarker,
      sRootPage \o sPageMarker,
      sApiPrefix \o <<"u">> \o sRouteMarker }

\* The manifest key Next.js derives from app/pages-tree/route.ts, the file
\* generateApiRoute writes.
SelfKey == sPagesTreePrefix \o sRouteMarker

\* ----------------------------------------------------- string operations
\* String.prototype.startsWith
startsWith(s, prefix) ==
    /\ Len(s) >= Len(prefix)
    /\ SubSeq(s, 1, Len(prefix)) = prefix

\* The anchored suffix test the regular expression /\/(page|route)$/ makes.
endsWith(s, suffix) ==
    /\ Len(s) >= Len(suffix)
    /\ SubSeq(s, Len(s) - Len(suffix) + 1, Len(s)) = suffix

\* UTF-16 code unit of the characters used.
CharCode(c) ==
    CASE c = "-" -> 45
      [] c = "/" -> 47
      [] c = "a" -> 97
      [] c = "b" -> 98
      [] c = "e" -> 101
      [] c = "g" -> 103
      [] c = "i" -> 105
      [] c = "l" -> 108
      [] c = "o" -> 111
      [] c = "p" -> 112
      [] c = "r" -> 114
      [] c = "s" -> 115
      [] c = "t" -> 116
      [] c = "u" -> 117

\* x < y in the order Array.prototype.sort uses without a comparator: the
\* code units at the first position where the strings differ decide, and a
\* proper prefix comes first.
StrLess(x, y) ==
    LET n == IF Len(x) < Len(y) THEN Len(x) ELSE Len(y)
        differ == {i \in 1..n : x[i] # y[i]}
    IN  IF differ = {} THEN Len(x) < Len(y)
        ELSE LET d == CHOOSE i \in differ : \A j \in differ : i <= j
             IN  CharCode(x[d]) < CharCode(y[d])

\* Mutant: the .sort() call left out.
SortStringsDropped(s) == s

\* Array.prototype.sort() with the default comparison: ascending, and stable
\* (equal strings keep their order). The element at index j goes to the
\* position after all the elements that come before it. The array t that is
\* sorted is the value of s, built before .sort() is called on it.
SortStrings(s) ==
    LET Before(t, i, j) ==
            \/ StrLess(t[i], t[j])
            \/ ~StrLess(t[j], t[i]) /\ i < j
        Rank(t, j) == Cardinality({i \in DOMAIN t : Before(t, i, j)}) + 1
        Sorted(t) ==
            [r \in DOMAIN t |-> t[CHOOSE j \in DOMAIN t : Rank(t, j) = r]]
    IN  CHOOSE sorted \in {Sorted(t) : t \in {s}} : TRUE

\* ------------------------------------------------------------ the plugin
Variants == {"done", "afterEmit", "html"}

\* The manifest files each variant reads, in the order it reads them.
AppPaths == "server/app-paths-manifest.json"
AppPathRoutes == "app-path-routes-manifest.json"
AppBuild == "app-build-manifest.json"
PagesManifest == "server/pages-manifest.json"
ReadOrder(v) ==
    IF v = "afterEmit" THEN <<AppPathRoutes, AppBuild, PagesManifest>>
    ELSE <<AppPaths>>
Reads(v) == {ReadOrder(v)[i] : i \in 1..Len(ReadOrder(v))}

\* The artifact files each variant writes. RoutesFile is routes.json, or
\* routes.js when the done-hook or afterEmit variant is given format "js":
\* the two differ in the text wrapped around the same serialized object.
RoutesFile == "routes"
HtmlFile == "index.html"
EndpointFile == "app/pages-tree/route.ts"
Artifacts(v) ==
    IF v = "html" THEN {HtmlFile, RoutesFile} ELSE {RoutesFile, EndpointFile}

\* Sequences of distinct keys, at most MaxKeys long: Object.keys of a parsed
\* manifest lists each key once, in the order of the document.
Projects ==
    {s \in UNION {[1..n -> KeyUniverse] : n \in 0..MaxKeys} :
        \A i, j \in 1..Len(s) : i # j => s[i] # s[j]}

\* s with x put in before position i.
InsertAt(s, i, x) == SubSeq(s, 1, i - 1) \o <<x>> \o SubSeq(s, i, Len(s))

NoFile == [kind |-> "none"]

VARIABLES
    variant,    \* which PagesTreeWebpackPlugin is installed
    project,    \* the route keys of the project, in manifest order
    listing,    \* the keys of this build's manifests (one key set stands
                \* for the key sets of the manifests a variant reads)
    manifests,  \* manifest file -> "absent" | "malformed" | "ok", as read
    files,      \* artifact file -> NoFile | written content
    written,    \* the artifact files the running callback has written
    build,      \* number of the build whose hook fired last
    pc,         \* position of the hook's async callback
    routes,     \* the routes object of the running callback
    hook,       \* the promise tapPromise returned: pending/resolved/rejected
    lastFound   \* history: the latest collection with at least one route

vars == <<variant, project, listing, manifests, files, written, build, pc,
          routes, hook, lastFound>>

\* const routes = { ... } at the top of collectRoutes.
EmptyRoutes(v) ==
    IF v = "afterEmit"
    THEN [pages |-> <<>>, appPages |-> <<>>, appRoutes |-> <<>>]
    ELSE [appRoutes |-> <<>>]

\* ------------------------------------------------------- route collection
\* Mutant: the /api/ filter left out.
NotApiDropped(route) == TRUE

\* (route) => !route.startsWith("/api/")
NotApi(route) == ~startsWith(route, sApiPrefix)

\* Mutant: the /pages-tree filter left out.
NotSelfDropped(route) == TRUE

\* (route) => !route.startsWith("/pages-tree")
NotSelf(route) == ~startsWith(route, sPagesTreePrefix)

\* (route) => route.startsWith("/api/"), the afterEmit variant's filter.
IsApi(route) == startsWith(route, sApiPrefix)

\* Mutant: the expression /\/[^\/]*$/, which cuts the last segment whatever
\* it is.
RECURSIVE StripLastSegment(_)
StripLastSegment(route) ==
    IF route = <<>> THEN route
    ELSE IF route[Len(route)] = "/" THEN SubSeq(route, 1, Len(route) - 1)
    ELSE StripLastSegment(SubSeq(route, 1, Len(route) - 1))

\* route.replace(/\/(page|route)$/, ""): the one match the anchored
\* expression can have is cut off.
StripMarker(route) ==
    IF endsWith(route, sPageMarker)
    THEN SubSeq(route, 1, Len(route) - Len(sPageMarker))
    ELSE IF endsWith(route, sRouteMarker)
    THEN SubSeq(route, 1, Len(route) - Len(sRouteMarker))
    ELSE route

cleanRoutePath(route) ==
    IF route = sRootPage THEN sRoot ELSE StripMarker(route)

\* Object.keys(manifest).filter(...).filter(...) of the done-hook variant.
FilterDone(keys) == SelectSeq(SelectSeq(keys, NotApi), NotSelf)

\* Object.keys(manifest).filter(...).map(...).sort() of the html variant.
NormalizeHtml(keys) ==
    LET kept == SelectSeq(keys, NotApi)
        cleaned == [i \in DOMAIN kept |-> cleanRoutePath(kept[i])]
    IN  SortStrings(cleaned)

\* collectRoutes of the done-hook and html variants: an absent manifest is
\* skipped, one that cannot be read or parsed throws into the catch block,
\* and both return the empty routes object.
collectRoutesSingle(v, ms, keys) ==
    IF ms[AppPaths] = "ok"
    THEN [appRoutes |-> IF v = "done" THEN FilterDone(keys)
                        ELSE NormalizeHtml(keys)]
    ELSE EmptyRoutes(v)

\* collectRoutes of the afterEmit variant: three reads in one try block, so
\* the first manifest that throws ends the reading; what was assigned before
\* stays in the routes object.
collectRoutesAfterEmit(ms, keys) ==
    LET r0 == EmptyRoutes("afterEmit")
        threw1 == ms[AppPathRoutes] = "malformed"
        r1 == IF ms[AppPathRoutes] = "ok"
              THEN [r0 EXCEPT !.appPages = keys] ELSE r0
        threw2 == threw1 \/ ms[AppBuild] = "malformed"
        r2 == IF ~threw1 /\ ms[AppBuild] = "ok"
              THEN [r1 EXCEPT !.appRoutes = SelectSeq(keys, IsApi)] ELSE r1
        r3 == IF ~threw2 /\ ms[PagesManifest] = "ok"
              THEN [r2 EXCEPT !.pages = keys] ELSE r2
    IN  r3

collectRoutes(v, ms, keys) ==
    IF v = "afterEmit" THEN collectRoutesAfterEmit(ms, keys)
    ELSE collectRoutesSingle(v, ms, keys)

\* ------------------------------------------------------------------ apply
\* Mutant: the writers called whatever was collected.
ShouldWriteAlways(v, r) == TRUE

\* if (routes.appRoutes.length > 0) in the done-hook and html variants; the
\* afterEmit variant calls its writers unconditionally.
ShouldWrite(v, r) ==
    IF v = "afterEmit" THEN TRUE ELSE Len(r.appRoutes) > 0

\* Mutant: the hook callback without its try/catch.
ApplyCatchesNothing(v) == FALSE

\* The try/catch around the body of the hook callback.
ApplyCatches(v) == TRUE

\* The try/catch inside each writer; the afterEmit variant's have none.
WriterCatches(v) == v # "afterEmit"

\* The done-hook and html variants start with
\* await new Promise((resolve) => setTimeout(resolve, 1000)); the afterEmit
\* variant goes straight to collectRoutes.
Delays(v) == v # "afterEmit"

\* The first writer apply awaits.
FirstWriter(v) == IF v = "html" THEN "WriteHtml" ELSE "WriteRoutes"

\* --------------------------------------------------------------- writers
\* mkdirSync / writeFileSync: the write succeeds, or one of the two throws
\* (EACCES, ENOTDIR, EROFS, ...) and the file stays as it was.
IOOutcomes == {"ok", "fails"}

\* Mutant: the file written without the collected routes.
RoutesContentEmpty(r) ==
    [kind |-> "routes", appRoutes |-> <<>>]

\* JSON.stringify(routes, null, 2), bare or inside the module text with the
\* named and the default export. Of the serialized object the model keeps
\* the appRoutes member, the one every variant writes.
RoutesContent(r) ==
    [kind |-> "routes", appRoutes |-> r.appRoutes]

\* The html template: the count badge and one link per route (the
\* "Generated on" line is left out).
HtmlContent(r) ==
    [kind |-> "html", count |-> Len(r.appRoutes), links |-> r.appRoutes]

\* The endpoint source: the done-hook variant's handler reads the routes file
\* at request time, the afterEmit variant's carries the serialized routes.
EndpointContent(v, r) ==
    IF v = "done"
    THEN [kind |-> "ts", reads |-> RoutesFile]
    ELSE [kind |-> "ts", appRoutes |-> r.appRoutes]

WriteFile(fs, name, content, outcome) ==
    IF outcome = "ok" THEN [fs EXCEPT ![name] = content] ELSE fs

\* The artifacts the running callback has written, with `name` added when
\* its write succeeded.
NoteWritten(w, name, outcome) ==
    IF outcome = "ok" THEN w \cup {name} ELSE w

\* Where the callback goes after a writer that ended with `outcome`: on to
\* the next statement of apply, or with the exception to its catch block.
AfterWriter(v, outcome, next) ==
    IF outcome = "ok" \/ WriterCatches(v) THEN next ELSE "Throw"

\* How the promise of the async callback settles when the callback ends at
\* `at`: it returned, or the catch block of apply logged what was thrown, or
\* nothing caught it.
Settled(v, at) ==
    IF at = "Throw" /\ ~ApplyCatches(v) THEN "rejected" ELSE "resolved"

\* ---------------------------------------------------------------- state
\* The callback goes on at `at`; when that is its end (it returns, or an
\* exception left the try block), the promise settles in the same step.
Goto(at) ==
    IF at \in {"Return", "Throw"}
    THEN pc' = "Done" /\ hook' = Settled(variant, at)
    ELSE pc' = at /\ hook' = hook

Init ==
    /\ variant \in Variants
    /\ project \in Projects
    /\ listing = <<>>
    /\ manifests = [m \in Reads(variant) |-> "absent"]
    /\ files = [f \in Artifacts(variant) |-> NoFile]
    /\ written = {}
    /\ build = 0
    /\ pc = "Idle"
    /\ routes = EmptyRoutes(variant)
    /\ hook = "none"
    /\ lastFound = [found |-> FALSE, appRoutes |-> <<>>, wrote |-> "none"]

\* The host finishes a server build and calls the tapped hook. The keys of
\* the build's manifests are the project's, with the key of the endpoint file
\* when an earlier build of the plugin left one in app/pages-tree. The
\* afterEmit variant loads its manifests with require(), which answers from
\* the module cache of the process: a later build may get the keys an
\* earlier build of the same process loaded, the endpoint's not among them.
HostBuild ==
    /\ pc = "Idle"
    /\ build' = build + 1
    /\ listing' \in
         IF EndpointFile \in Artifacts(variant) /\ files[EndpointFile] # NoFile
         THEN {InsertAt(project, i, SelfKey) : i \in 1..(Len(project) + 1)}
              \cup (IF variant = "afterEmit" THEN {project} ELSE {})
         ELSE {project}
    /\ pc' = IF Delays(variant) THEN "Triggered" ELSE "Reading"
    /\ hook' = "pending"
    /\ UNCHANGED <<variant, project, manifests, files, written, routes,
                   lastFound>>

\* The host starts the next build of the project: the settled promise and
\* the routes object of the earlier callback are gone, and the manifests of
\* the earlier build are on their way to being replaced.
HostRebuild ==
    /\ pc = "Done"
    /\ build < MaxBuilds
    /\ pc' = "Idle"
    /\ hook' = "none"
    /\ routes' = EmptyRoutes(variant)
    /\ written' = {}
    /\ listing' = <<>>
    /\ manifests' = [m \in Reads(variant) |-> "absent"]
    /\ UNCHANGED <<variant, project, files, build, lastFound>>

\* The one second timer of the done-hook and html variants fires.
Settle ==
    /\ pc = "Triggered"
    /\ pc' = "Reading"
    /\ UNCHANGED <<variant, project, listing, manifests, files, written, build,
                   routes, hook, lastFound>>

\* await this.collectRoutes(...), then the branch apply takes on the result.
\* Each manifest is, when existsSync and readFileSync get to it, not there,
\* there but not (yet) parseable, or complete.
CollectRoutes ==
    /\ pc = "Reading"
    /\ manifests' \in [Reads(variant) -> {"absent", "malformed", "ok"}]
    /\ routes' = collectRoutes(variant, manifests', listing)
    /\ Goto(IF ShouldWrite(variant, routes') THEN FirstWriter(variant)
            ELSE "Return")
    /\ lastFound' = IF Len(routes'.appRoutes) > 0
                    THEN [found |-> TRUE, appRoutes |-> routes'.appRoutes,
                          wrote |-> "pending"]
                    ELSE lastFound
    /\ UNCHANGED <<variant, project, listing, files, written, build>>

\* The outcome of the write of the routes file, kept when the collection
\* written is the one lastFound holds (the running callback found routes).
NoteWrite(outcome) ==
    IF Len(routes.appRoutes) > 0 THEN [lastFound EXCEPT !.wrote = outcome]
    ELSE lastFound

\* writeRoutes of the done-hook and afterEmit variants.
WriteRoutes ==
    /\ pc = "WriteRoutes"
    /\ \E outcome \in IOOutcomes :
        /\ files' = WriteFile(files, RoutesFile,
                              RoutesContent(routes), outcome)
        /\ written' = NoteWritten(written, RoutesFile, outcome)
        /\ Goto(AfterWriter(variant, outcome, "GenerateApi"))
        /\ lastFound' = NoteWrite(outcome)
    /\ UNCHANGED <<variant, project, listing, manifests, build, routes>>

\* generateApiRoute of the done-hook and afterEmit variants.
GenerateApiRoute ==
    /\ pc = "GenerateApi"
    /\ \E outcome \in IOOutcomes :
        /\ files' = WriteFile(files, EndpointFile,
                              EndpointContent(variant, routes), outcome)
        /\ written' = NoteWritten(written, EndpointFile, outcome)
        /\ Goto(AfterWriter(variant, outcome, "Return"))
    /\ UNCHANGED <<variant, project, listing, manifests, build, routes,
                   lastFound>>

\* writeHTMLFile of the html variant.
WriteHTMLFile ==
    /\ pc = "WriteHtml"
    /\ \E outcome \in IOOutcomes :
        /\ files' = WriteFile(files, HtmlFile, HtmlContent(routes), outcome)
        /\ written' = NoteWritten(written, HtmlFile, outcome)
        /\ Goto(AfterWriter(variant, outcome, "WriteJson"))
    /\ UNCHANGED <<variant, project, listing, manifests, build, routes,
                   lastFound>>

\* writeJSONFile of the html variant.
WriteJSONFile ==
    /\ pc = "WriteJson"
    /\ \E outcome \in IOOutcomes :
        /\ files' = WriteFile(files, RoutesFile,
                              RoutesContent(routes), outcome)
        /\ written' = NoteWritten(written, RoutesFile, outcome)
        /\ Goto(AfterWriter(variant, outcome, "Return"))
        /\ lastFound' = NoteWrite(outcome)
    /\ UNCHANGED <<variant, project, listing, manifests, build, routes>>

\* The steps of the hook callback, which the event loop runs to the end.
Pipeline ==
    \/ Settle
    \/ CollectRoutes
    \/ WriteRoutes
    \/ GenerateApiRoute
    \/ WriteHTMLFile
    \/ WriteJSONFile

Next ==
    \/ HostBuild
    \/ HostRebuild
    \/ Settle
    \/ CollectRoutes
    \/ WriteRoutes
    \/ GenerateApiRoute
    \/ WriteHTMLFile
    \/ WriteJSONFile

Spec == Init /\ [][Next]_vars

\* A started callback is not abandoned: timers fire and awaited promises
\* settle.
FairSpec == Spec /\ WF_vars(Pipeline)

\* ================================================================ claims
Elems(s) == {s[i] : i \in DOMAIN s}
Count(s, x) == Cardinality({i \in DOMAIN s : s[i] = x})
Gated == {"done", "html"}

\* collectRoutes of the current build has returned.
Collected ==
    pc \in {"WriteRoutes", "GenerateApi", "WriteHtml", "WriteJson", "Done"}

\* No element of s begins with /api/.
ApiFree(s) == \A i \in DOMAIN s : ~startsWith(s[i], sApiPrefix)

\* The appRoutes a file carries, none for a file that does not exist.
Persisted(f) == IF files[f] = NoFile THEN <<>> ELSE files[f].appRoutes

\* Artifact f was written by the running (or last) build's callback.
WrittenNow(f) == f \in written

C2_EmptyWritesNothingEveryVariant ==
    (Collected /\ routes.appRoutes = <<>>) =>
        \A f \in Artifacts(variant) : ~WrittenNow(f)

\* C2 amended: in the done-hook and html variants a run that collected no
\* appRoutes writes no artifact (the afterEmit variant has no such gate).
C2_EmptyWritesNothingWhereGated ==
    (variant \in Gated /\ Collected /\ routes.appRoutes = <<>>) =>
        \A f \in Artifacts(variant) : ~WrittenNow(f)

\* C2's case: a gated run that ended with nothing collected, after an earlier
\* build had written the routes file.
C2_Witness ==
    /\ variant \in Gated
    /\ pc = "Done"
    /\ routes.appRoutes = <<>>
    /\ files[RoutesFile] # NoFile

\* ---------------------------------------------------------------- C3
\* C3: every run whose hook fired (its promise is pending) reaches Done with
\* the promise resolved, whichever step failed.
C3_RunEndsResolved ==
    (hook = "pending") ~> (pc = "Done" /\ hook = "resolved")

\* C3's case: in the afterEmit variant writeRoutes threw (no routes file
\* exists although that variant always writes), the exception reached the
\* catch block of apply, and the promise resolved.
C3_Witness ==
    /\ variant = "afterEmit"
    /\ pc = "Done"
    /\ hook = "resolved"
    /\ files[RoutesFile] = NoFile

\* ---------------------------------------------------------------- C4
\* C4 as stated: the appRoutes the html variant collects has no duplicates.
C4_NoDuplicates ==
    (variant = "html" /\ Collected) =>
        \A i, j \in DOMAIN routes.appRoutes :
            i # j => routes.appRoutes[i] # routes.appRoutes[j]

\* ---------------------------------------------------------------- C5
\* The reference canonical form of the claim: "/" for "/page", else the key
\* without one trailing /page or /route segment, else the key.
RefCanonical(k) ==
    IF k = <<"/", "p", "a", "g", "e">> THEN <<"/">>
    ELSE IF endsWith(k, <<"/", "p", "a", "g", "e">>) THEN SubSeq(k, 1, Len(k) - 5)
    ELSE IF endsWith(k, <<"/", "r", "o", "u", "t", "e">>) THEN SubSeq(k, 1, Len(k) - 6)
    ELSE k

\* C5 as stated: the html variant emits, for the non-excluded keys, exactly
\* their reference canonical forms, and none of them is the empty string.
C5_CanonicalAndNonEmpty ==
    (variant = "html" /\ Collected /\ manifests[AppPaths] = "ok") =>
        LET kept == SelectSeq(listing, LAMBDA k : ~startsWith(k, sApiPrefix))
            ref == [i \in DOMAIN kept |-> RefCanonical(kept[i])]
        IN  /\ Len(routes.appRoutes) = Len(kept)
            /\ \A x \in Elems(ref) : Count(routes.appRoutes, x) = Count(ref, x)
            /\ \A i \in DOMAIN routes.appRoutes : routes.appRoutes[i] # <<>>

\* ---------------------------------------------------------------- C6
\* s ends in a /page or /route segment.
EndsInMarker(s) ==
    endsWith(s, <<"/", "p", "a", "g", "e">>) \/ endsWith(s, <<"/", "r", "o", "u", "t", "e">>)

\* C6 as stated: normalizing the appRoutes the html variant produced, as if
\* they were manifest keys, gives the same list.
C6_Idempotent ==
    (variant = "html" /\ Collected) =>
        NormalizeHtml(routes.appRoutes) = routes.appRoutes

\* C6 amended: normalizing the produced appRoutes again gives the same list
\* exactly when none of its elements still ends in a /page or /route
\* segment.
C6_IdempotentUnlessMarkerLeft ==
    (variant = "html" /\ Collected) =>
        ( NormalizeHtml(routes.appRoutes) = routes.appRoutes
          <=> \A i \in DOMAIN routes.appRoutes : ~EndsInMarker(routes.appRoutes[i]) )

\* C6's case: two keys were cleaned and sorted, and normalizing the result
\* again changes nothing.
C6_Witness ==
    /\ variant = "html"
    /\ Collected
    /\ Len(routes.appRoutes) = 2
    /\ routes.appRoutes # listing
    /\ \A i \in DOMAIN routes.appRoutes : ~EndsInMarker(routes.appRoutes[i])
    /\ NormalizeHtml(routes.appRoutes) = routes.appRoutes

\* ---------------------------------------------------------------- C7
\* The orders in which a manifest can list the keys of s.
Reorderings(s) ==
    {t \in [DOMAIN s -> Elems(s)] : Elems(t) = Elems(s)}

\* C7 as stated: a manifest with the same keys in another order gives the
\* same appRoutes, in the variants that list pages.
C7_OrderIndependentEveryVariant ==
    (variant \in Gated /\ Collected /\ manifests[AppPaths] = "ok") =>
        \A t \in Reorderings(listing) :
            collectRoutes(variant, manifests, t).appRoutes = routes.appRoutes

\* C7 amended: in the html variant, which sorts, a manifest with the same
\* keys in another order gives the same appRoutes (the done-hook variant
\* keeps the order of the manifest).
C7_OrderIndependentWhereSorted ==
    (variant = "html" /\ Collected /\ manifests[AppPaths] = "ok") =>
        \A t \in Reorderings(listing) :
            collectRoutes(variant, manifests, t).appRoutes = routes.appRoutes

\* C7's case: the manifest listed two kept keys in descending order and the
\* collection holds their two routes.
C7_Witness ==
    /\ variant = "html"
    /\ Collected
    /\ manifests[AppPaths] = "ok"
    /\ Len(listing) = 2
    /\ Len(routes.appRoutes) = 2
    /\ StrLess(listing[2], listing[1])
    /\ StrLess(routes.appRoutes[1], routes.appRoutes[2])

\* ---------------------------------------------------------------- C8
\* C8: in the done-hook variant no collected route begins with /pages-tree,
\* and a build that read its manifest, the endpoint's key in it or not,
\* collects the same appRoutes as the latest earlier build that found any.
C8_NeverListsItself ==
    [][ (variant = "done" /\ pc = "Reading" /\ pc' # "Reading") =>
          /\ \A i \in DOMAIN routes'.appRoutes :
                ~startsWith(routes'.appRoutes[i], sPagesTreePrefix)
          /\ (lastFound.found /\ manifests'[AppPaths] = "ok") =>
                routes'.appRoutes = lastFound.appRoutes ]_vars

\* C8's case: the endpoint an earlier build wrote put its key into this
\* build's manifest, which was read, and routes were collected from it.
C8_Witness ==
    /\ variant = "done"
    /\ Collected
    /\ manifests[AppPaths] = "ok"
    /\ \E i \in DOMAIN listing : listing[i] = SelfKey
    /\ files[EndpointFile] # NoFile
    /\ routes.appRoutes # <<>>

\* ---------------------------------------------------------------- C9
\* C9 as stated: in the afterEmit variant every manifest that exists and
\* parses has its keys in the returned collection, whatever happened to the
\* other manifests.
C9_OtherManifestsCollected ==
    (variant = "afterEmit" /\ Collected) =>
        /\ manifests[AppPathRoutes] = "ok" => routes.appPages = listing
        /\ manifests[AppBuild] = "ok" =>
              routes.appRoutes =
                  SelectSeq(listing, LAMBDA k : startsWith(k, sApiPrefix))
        /\ manifests[PagesManifest] = "ok" => routes.pages = listing

====
